---- MODULE Spec2Model ----
(***************************************************************************)
(* A model of auxiliary/auxiliary.py: six plotting helpers built on        *)
(* matplotlib.pyplot (plt) and pandas (pd).                                *)
(*                                                                         *)
(* State: pyplot's figure registry (the open figures, the last one being   *)
(* the current figure, each with its live axes and its current axes), the  *)
(* data directory, the caller's dataframe, and a record of the last call:  *)
(* the library calls it made, in order, and the error it ended with.       *)
(* One action per function; a call runs to its end or to the first library *)
(* call that raises.                                                       *)
(***************************************************************************)
EXTENDS Integers, Sequences, FiniteSets, TLC

VARIABLES
    backend,      \* what plt.show() does to the registry ("retain" | "destroy")
    handleOrder,  \* how Axes.get_legend_handles_labels orders the artists
    fs,           \* the data directory: path -> pickled table
    df,           \* the caller's dataframe object
    figs,         \* pyplot's registry of open figures, the current one last
    last          \* the last call: function, arguments, library calls, error

vars == <<backend, handleOrder, fs, df, figs, last>>

----------------------------------------------------------------------------
(* Bounds *)

MaxFigs == 2      \* calls start only while fewer figures than this are open
MaxCols == 6      \* widest pickled table

----------------------------------------------------------------------------
(* Strings that the code transforms are sequences of characters *)

LowerCase == <<"a","b","c","d","e","f","g","h","i","j","k","l","m",
               "n","o","p","q","r","s","t","u","v","w","x","y","z">>
UpperCase == <<"A","B","C","D","E","F","G","H","I","J","K","L","M",
               "N","O","P","Q","R","S","T","U","V","W","X","Y","Z">>

IndexIn(seq, c) ==
    IF \E i \in 1..Len(seq) : seq[i] = c
    THEN CHOOSE i \in 1..Len(seq) : seq[i] = c
    ELSE 0

upper(c) == IF IndexIn(LowerCase, c) > 0 THEN UpperCase[IndexIn(LowerCase, c)] ELSE c
lower(c) == IF IndexIn(UpperCase, c) > 0 THEN LowerCase[IndexIn(UpperCase, c)] ELSE c

\* str.capitalize(): first character upper case, the rest lower case
capitalize(s) == [i \in 1..Len(s) |-> IF i = 1 THEN upper(s[i]) ELSE lower(s[i])]

\* str.replace("_", " ")
replace_underscore(s) == [i \in 1..Len(s) |-> IF s[i] = "_" THEN " " ELSE s[i]]

\* choice.capitalize().replace("_", " ")
PanelTitle(choice) == replace_underscore(capitalize(choice))

----------------------------------------------------------------------------
(* Pickled tables: a table has an identity (the model it was simulated     *)
(* from) and a list of distinct column labels; Column(t, c) is t[c].       *)

KW97Choices == <<
    <<"s","c","h","o","o","l">>,
    <<"h","o","m","e">>,
    <<"b","l","u","e","_","c","o","l","l","a","r">>,
    <<"w","h","i","t","e","_","c","o","l","l","a","r">>,
    <<"m","i","l","i","t","a","r","y">> >>

\* the k-th column label of a table; labels past the five choices are distinct
ColumnLabel(k) ==
    IF k <= Len(KW97Choices) THEN KW97Choices[k]
    ELSE <<"X">> \o [i \in 1..(k - Len(KW97Choices)) |-> "_"]

MakeTable(id, width) == [id |-> id, columns |-> [k \in 1..width |-> ColumnLabel(k)]]

EmptyTable == [id |-> "", columns |-> <<>>]

HasColumn(t, c) == \E k \in 1..Len(t.columns) : t.columns[k] = c

\* the file sought in the working directory
PicklePathNoDirectory(model) == <<"choices_", model, ".pkl">>

\* f"data/choices_{model}.pkl"
PicklePath(model) == <<"data/choices_", model, ".pkl">>

Models94 == <<"kw_94_one", "kw_94_two", "kw_94_three">>
Models97 == <<"kw_97_basic", "kw_97_extended">>
ModelsCmp == <<"kw_97_obs", "kw_97_basic", "kw_97_extended">>

Range(s) == {s[i] : i \in 1..Len(s)}

AllModels == Range(Models94) \cup Range(ModelsCmp)

----------------------------------------------------------------------------
(* Dataframes passed by the caller: a set of columns and a set of rows.    *)

ChoiceOrder == <<"fishing", "friday", "hammock">>      \* in sorted order
LevelOrder == <<0, 1>>
PeriodOrder == <<0, 1>>

AllColumns == {"Period", "Choice", "Fishing_Grounds", "Experience_Fishing"}

Row(p, c, g, e) ==
    [Period |-> p, Choice |-> c, Fishing_Grounds |-> g, Experience_Fishing |-> e]

SampleRows == { Row(0, "fishing", "rich", 0), Row(0, "hammock", "poor", 0),
                Row(1, "fishing", "poor", 1), Row(1, "friday", "rich", 0) }

\* the values of a sequence that satisfy membership in a set, in sequence order
Sorted(order, values) ==
    LET Keep(v) == v \in values IN SelectSeq(order, Keep)

----------------------------------------------------------------------------
(* The run of one call.  tr: the library calls made so far; figs: pyplot's *)
(* registry; arg: the dataframe object the caller passed; fs: the data     *)
(* directory; val: the value of the expression being evaluated; tbl: the   *)
(* local variable df of the two functions that load tables; data: the      *)
(* dict built by plot_kw_97_comparison; err: the exception that ended the  *)
(* call ("" while it runs).  No function has a try statement: once err is  *)
(* set, no later statement runs.                                           *)

Start(d, f, g) ==
    [tr |-> <<>>, figs |-> g, arg |-> d, fs |-> f, val |-> d,
     tbl |-> EmptyTable, data |-> <<>>, err |-> ""]

Event(op, ax, a, e) == [op |-> op, ax |-> ax, a |-> a, raised |-> e]

\* a library call that returns
Log(st, op, ax, a) == [st EXCEPT !.tr = Append(@, Event(op, ax, a, ""))]

\* a library call that raises: the exception leaves the function
Raise(st, op, ax, a, e) ==
    [st EXCEPT !.tr = Append(@, Event(op, ax, a, e)), !.err = e]

----------------------------------------------------------------------------
(* matplotlib.pyplot *)

NextNum(g) ==
    IF g = <<>> THEN 1
    ELSE 1 + (CHOOSE n \in {g[i].num : i \in 1..Len(g)} :
                 \A i \in 1..Len(g) : g[i].num <= n)

\* plt.subplots(...): a new figure with n axes becomes the current figure,
\* the axes added last is its current axes
subplots(st, n) ==
    IF st.err # "" THEN st
    ELSE Log([st EXCEPT !.figs = Append(@, [num |-> NextNum(@),
                                             axes |-> 0..(n - 1),
                                             cur |-> n - 1])],
             "subplots", -1, [n |-> n])

\* plt.gca(): the current axes of the current figure
gca(st) == st.figs[Len(st.figs)].cur

\* plt.show(): displays; whether the figures stay registered is the backend's
\* business (they stay with a non-blocking or non-GUI backend, they are gone
\* when a blocking show returns or an inline backend has flushed them)
show(st) ==
    IF st.err # "" THEN st
    ELSE Log([st EXCEPT !.figs = IF backend = "destroy" THEN <<>> ELSE @],
             "show", -1, <<>>)

\* plt.close(): closes the current figure, if there is one
close(st) ==
    IF st.err # "" THEN st
    ELSE Log([st EXCEPT !.figs = IF @ = <<>> THEN @ ELSE SubSeq(@, 1, Len(@) - 1)],
             "close", -1, <<>>)

\* fig.delaxes(ax[i]): the axes leaves the figure; the current axes falls
\* back to the live axes added last
delaxes(st, i) ==
    IF st.err # "" THEN st
    ELSE LET f == st.figs[Len(st.figs)]
             live == f.axes \ {i}
             cur == IF f.cur # i \/ live = {} THEN f.cur
                    ELSE CHOOSE a \in live : \A b \in live : b <= a
         IN Log([st EXCEPT !.figs[Len(st.figs)] = [f EXCEPT !.axes = live, !.cur = cur]],
                "delaxes", i, <<>>)

\* the artists with a legend label that the calls so far put on axes i,
\* each plot call's artists in drawing order
RECURSIVE ArtistsOn(_, _)
ArtistsOn(tr, i) ==
    IF tr = <<>> THEN <<>>
    ELSE LET ev == tr[Len(tr)]
             rest == ArtistsOn(SubSeq(tr, 1, Len(tr) - 1), i)
         IN IF ev.op \in {"plot.area", "plot.line", "plot.bar", "plot"}
               /\ ev.ax = i /\ ev.raised = ""
            THEN rest \o ev.a.artists
            ELSE rest

\* Axes.get_legend_handles_labels(): lines, then collections, then
\* containers ("by_type"), or the axes' children as drawn, then containers
\* ("by_draw"), depending on the matplotlib release
get_legend_handles_labels(tr, i) ==
    LET all == ArtistsOn(tr, i)
        IsLine(h) == h.kind = "line"
        IsPoly(h) == h.kind = "poly"
        IsBars(h) == h.kind = "bars"
        IsChild(h) == h.kind # "bars"
    IN IF handleOrder = "by_type"
       THEN SelectSeq(all, IsLine) \o SelectSeq(all, IsPoly) \o SelectSeq(all, IsBars)
       ELSE SelectSeq(all, IsChild) \o SelectSeq(all, IsBars)

\* dict(zip(labels, handles)): one entry per label, in the order the labels
\* first occur, holding the handle that occurs last
by_label(handles) ==
    LET First(k) == \A j \in 1..(k - 1) : handles[j].label # handles[k].label
        LastOf(l) == CHOOSE k \in 1..Len(handles) :
                        /\ handles[k].label = l
                        /\ \A j \in (k + 1)..Len(handles) : handles[j].label # l
        keys == {k \in 1..Len(handles) : First(k)}
        RECURSIVE Build(_)
        Build(k) == IF k > Len(handles) THEN <<>>
                    ELSE (IF k \in keys THEN <<handles[LastOf(handles[k].label)]>> ELSE <<>>)
                         \o Build(k + 1)
    IN Build(1)

\* plt.legend(handles, labels, ...): a legend on the current axes
plt_legend_with(st, handles, kw) ==
    IF st.err # "" THEN st
    ELSE Log(st, "legend", gca(st), [entries |-> handles, kw |-> kw])

\* plt.legend(...): a legend on the current axes from its labelled artists
plt_legend(st, kw) ==
    IF st.err # "" THEN st
    ELSE Log(st, "legend", gca(st),
             [entries |-> get_legend_handles_labels(st.tr, gca(st)), kw |-> kw])

\* ax[i].legend(...)
ax_legend(st, i, kw) ==
    IF st.err # "" THEN st
    ELSE Log(st, "legend", i,
             [entries |-> get_legend_handles_labels(st.tr, i), kw |-> kw])

\* set_title, set_xlabel, margins, spines, label visibility, xticks, suptitle
decorate(st, op, ax, a) == IF st.err # "" THEN st ELSE Log(st, op, ax, a)

----------------------------------------------------------------------------
(* pandas *)

\* the name df in an expression: the object the caller passed
frame(st) == IF st.err # "" THEN st ELSE [st EXCEPT !.val = st.arg]

\* df.query(..., inplace=True): the caller's frame loses the other rows
query_inplace(st, observable) ==
    IF st.err # "" THEN st
    ELSE IF "Fishing_Grounds" \notin st.val.columns
    THEN Raise(st, "query", -1, observable, "UndefinedVariableError")
    ELSE LET kept == [columns |-> st.val.columns,
                      rows |-> {r \in st.val.rows : r.Fishing_Grounds = observable}]
         IN Log([st EXCEPT !.val = kept, !.arg = kept], "query", -1, observable)

\* df.query("Fishing_Grounds == @observable"): a new frame, df stays as it is
query(st, observable) ==
    IF st.err # "" THEN st
    ELSE IF "Fishing_Grounds" \notin st.val.columns
    THEN Raise(st, "query", -1, observable, "UndefinedVariableError")
    ELSE Log([st EXCEPT !.val = [columns |-> @.columns,
                                 rows |-> {r \in @.rows : r.Fishing_Grounds = observable}]],
             "query", -1, observable)

\* .groupby(key)
groupby(st, key) ==
    IF st.err # "" THEN st
    ELSE IF key \notin st.val.columns
    THEN Raise(st, "groupby", -1, key, "KeyError")
    ELSE Log([st EXCEPT !.val = [frame |-> @, by |-> key]], "groupby", -1, key)

\* .Choice, .Experience_Fishing: a column of the grouped frame
column(st, name) ==
    IF st.err # "" THEN st
    ELSE IF name \notin st.val.frame.columns
    THEN Raise(st, "column", -1, name, "AttributeError")
    ELSE Log([st EXCEPT !.val = [frame |-> @.frame, by |-> @.by, col |-> name]],
             "column", -1, name)

\* .value_counts(normalize=True): per group and value, the count of the value
\* over the size of the group (kept as the pair, not divided)
value_counts(st) ==
    IF st.err # "" THEN st
    ELSE LET rows == st.val.frame.rows
             by == st.val.by
             col == st.val.col
             Count(g, v) == Cardinality({r \in rows : r[by] = g /\ r[col] = v})
             Size(g) == Cardinality({r \in rows : r[by] = g})
         IN Log([st EXCEPT !.val =
                    [col |-> col,
                     shares |-> { [group |-> r[by], value |-> r[col],
                                   share |-> <<Count(r[by], r[col]), Size(r[by])>>]
                                  : r \in rows }]],
                "value_counts", -1, col)

\* .unstack(): groups become the index, values the columns, both sorted;
\* a pair that does not occur is a missing cell
unstack(st) ==
    IF st.err # "" THEN st
    ELSE LET sh == st.val.shares
             order == IF st.val.col = "Choice" THEN ChoiceOrder ELSE LevelOrder
             Cell(g, v) == IF \E x \in sh : x.group = g /\ x.value = v
                           THEN (CHOOSE x \in sh : x.group = g /\ x.value = v).share
                           ELSE <<>>
             index == Sorted(PeriodOrder, {x.group : x \in sh})
             columns == Sorted(order, {x.value : x \in sh})
         IN Log([st EXCEPT !.val =
                    [index |-> index, columns |-> columns,
                     cells |-> [k \in 1..Len(columns) |->
                                  [n \in 1..Len(index) |-> Cell(index[n], columns[k])]]]],
                "unstack", -1, <<>>)

DefaultCycle == <<"C0", "C1", "C2", "C3", "C4", "C5", "C6", "C7", "C8", "C9">>

\* the colour of the k-th of n columns: the colours given, cycled; or the
\* colormap sampled; or the default colour cycle
ColumnColor(kw, k, n) ==
    IF kw.color # <<>> THEN kw.color[((k - 1) % Len(kw.color)) + 1]
    ELSE IF kw.cmap # "" THEN <<kw.cmap, k, n>>
    ELSE DefaultCycle[((k - 1) % Len(DefaultCycle)) + 1]

BarKw(color, cmap, title) == [color |-> color, cmap |-> cmap, title |-> title]

\* .plot.bar(stacked=True, ax=ax[i], ...): one bar container per column,
\* labelled with the column; no columns, nothing to plot
plot_bar(st, i, kw) ==
    IF st.err # "" THEN st
    ELSE IF st.val.columns = <<>>
    THEN Raise(st, "plot.bar", i, [artists |-> <<>>, kw |-> kw], "TypeError")
    ELSE LET t == st.val
             n == Len(t.columns)
         IN Log(st, "plot.bar", i,
                [artists |-> [k \in 1..n |->
                                [kind |-> "bars", label |-> t.columns[k],
                                 color |-> ColumnColor(kw, k, n), data |-> t.cells[k]]],
                 kw |-> kw])

\* read_pickle inside a try statement that swallows the error and goes on
\* with an empty table
read_pickle_caught(st, model) ==
    IF st.err # "" THEN st
    ELSE IF PicklePath(model) \notin DOMAIN st.fs
    THEN [st EXCEPT !.tbl = EmptyTable,
                    !.tr = Append(@, Event("read_pickle", -1, PicklePath(model),
                                           "FileNotFoundError"))]
    ELSE Log([st EXCEPT !.tbl = st.fs[PicklePath(model)]],
             "read_pickle", -1, PicklePath(model))

\* pd.read_pickle(path): the table in the file; the file stays as it is
read_pickle(st, model) ==
    IF st.err # "" THEN st
    ELSE IF PicklePath(model) \notin DOMAIN st.fs
    THEN Raise(st, "read_pickle", -1, PicklePath(model), "FileNotFoundError")
    ELSE Log([st EXCEPT !.tbl = st.fs[PicklePath(model)]],
             "read_pickle", -1, PicklePath(model))

\* the area plot as if pandas made the axes it draws on the current axes
area_plot_sca(st, i, title) ==
    IF st.err # "" THEN st
    ELSE IF st.tbl.columns = <<>>
    THEN Raise(st, "plot.area", i, [artists |-> <<>>, title |-> title, table |-> st.tbl.id],
               "TypeError")
    ELSE Log([st EXCEPT !.figs[Len(st.figs)].cur = i], "plot.area", i,
             [artists |-> [k \in 1..Len(st.tbl.columns) |->
                             [kind |-> "poly", label |-> st.tbl.columns[k],
                              color |-> DefaultCycle[((k - 1) % Len(DefaultCycle)) + 1],
                              data |-> <<st.tbl.id, st.tbl.columns[k]>>]],
              title |-> title, table |-> st.tbl.id])

\* df.plot(kind="area", stacked=True, ax=ax[i], legend=False, title=...): a
\* labelled filled area per column (its outline is unlabelled); pandas draws
\* on the axes it is given and leaves pyplot's current axes alone
area_plot(st, i, title) ==
    IF st.err # "" THEN st
    ELSE IF st.tbl.columns = <<>>
    THEN Raise(st, "plot.area", i, [artists |-> <<>>, title |-> title, table |-> st.tbl.id],
               "TypeError")
    ELSE Log(st, "plot.area", i,
             [artists |-> [k \in 1..Len(st.tbl.columns) |->
                             [kind |-> "poly", label |-> st.tbl.columns[k],
                              color |-> DefaultCycle[((k - 1) % Len(DefaultCycle)) + 1],
                              data |-> <<st.tbl.id, st.tbl.columns[k]>>]],
              title |-> title, table |-> st.tbl.id])

\* df.plot(stacked=True, ax=ax[i], legend=False, color="white", ...): a
\* labelled line per column
line_plot(st, i) ==
    IF st.err # "" THEN st
    ELSE IF st.tbl.columns = <<>>
    THEN Raise(st, "plot.line", i, [artists |-> <<>>, table |-> st.tbl.id], "TypeError")
    ELSE Log(st, "plot.line", i,
             [artists |-> [k \in 1..Len(st.tbl.columns) |->
                             [kind |-> "line", label |-> st.tbl.columns[k],
                              color |-> "white",
                              data |-> <<st.tbl.id, st.tbl.columns[k]>>]],
              table |-> st.tbl.id])

\* ax[i].plot(data[model][choice], color=..., label=..., ...)
ax_plot(st, i, model, choice, color, label) ==
    IF st.err # "" THEN st
    ELSE IF ~HasColumn(st.data[model], choice)
    THEN Raise(st, "plot", i, [artists |-> <<>>], "KeyError")
    ELSE Log(st, "plot", i,
             [artists |-> << [kind |-> "line", label |-> label, color |-> color,
                              data |-> <<st.data[model].id, choice>>] >>])

----------------------------------------------------------------------------
(* auxiliary.py *)

LegendKw(loc, anchor, ncol) == [loc |-> loc, anchor |-> anchor, ncol |-> ncol]

\* df.groupby("Period").<name>.value_counts(normalize=True).unstack()
Aggregate(st, name) ==
    unstack(value_counts(column(groupby(st, "Period"), name)))

Observables == <<"rich", "poor">>

\* the loop of plot_fishing_grounds, from iteration i (0-based) on
RECURSIVE FishingLoop(_, _)
FishingLoop(st, i) ==
    IF i >= Len(Observables) THEN st
    ELSE LET observable == Observables[i + 1]
             s1 == Aggregate(query(frame(st), observable), "Choice")
             s2 == plot_bar(s1, i, BarKw(<<>>, "", ""))
             s3 == decorate(s2, "set_title", i, <<"Fishing grounds: ", observable>>)
             s4 == decorate(s3, "xaxis.label.set_visible", i, FALSE)
         IN FishingLoop(s4, i + 1)

plot_fishing_grounds(st) ==
    LET s1 == subplots(st, 2)
        s2 == FishingLoop(s1, 0)
        s3 == plt_legend(s2, LegendKw("lower center", <<"-0.15", "-0.3">>, 2))
        s4 == decorate(s3, "suptitle", -1, "Robinson's choices by period")
    IN show(s4)

\* the third colour added, the column count left at two
SharesPaletteTwoColumns(friday) ==
    IF friday THEN [color |-> <<"C0", "C2", "C1">>, choices |-> 2]
    ELSE [color |-> <<"C0", "C1">>, choices |-> 2]

\* the palette and the legend's column count of plot_choice_shares
SharesPalette(friday) ==
    IF friday THEN [color |-> <<"C0", "C2", "C1">>, choices |-> 3]
    ELSE [color |-> <<"C0", "C1">>, choices |-> 2]

plot_choice_shares(st, friday) ==
    LET p == SharesPalette(friday)
        s1 == subplots(st, 1)
        s2 == plot_bar(Aggregate(frame(s1), "Choice"), 0, BarKw(p.color, "", ""))
        s3 == decorate(s2, "xticks", gca(s2), "horizontal")
        s4 == plt_legend(s3, LegendKw("lower center", <<"0.5", "-0.275">>, p.choices))
    IN close(show(s4))

plot_choice_prob_and_exp_level(st) ==
    LET s1 == subplots(st, 2)
        s2 == plot_bar(Aggregate(frame(s1), "Choice"), 0,
                       BarKw(<<>>, "", "Choice Probabilities"))
        s3 == plot_bar(Aggregate(frame(s2), "Experience_Fishing"), 1,
                       BarKw(<<>>, "Blues", "Share of Experience Level per Period"))
        s4 == ax_legend(s3, 0, LegendKw("lower center", <<"0.5", "-0.4">>, 2))
        s5 == ax_legend(s4, 1, LegendKw("right", <<"1.3", "0.5">>, 1))
    IN show(s5)

plot_choice_prob(st) ==
    LET s1 == subplots(st, 1)
        s2 == plot_bar(Aggregate(frame(s1), "Choice"), 0, BarKw(<<>>, "", ""))
        s3 == decorate(s2, "xticks", gca(s2), "horizontal")
        s4 == plt_legend(s3, LegendKw("lower center", <<"0.5", "-0.275">>, 2))
    IN close(show(s4))

\* the second branch keeps the first branch's subplots call
KwSetupThreePanels(example) ==
    IF example = "1994" THEN [assigned |-> TRUE, panels |-> 3, models |-> Models94]
    ELSE IF example = "1997" THEN [assigned |-> TRUE, panels |-> 3, models |-> Models97]
    ELSE [assigned |-> FALSE, panels |-> 0, models |-> <<>>]

\* any other example falls back to the 1994 models
KwSetupDefault(example) ==
    IF example = "1997" THEN [assigned |-> TRUE, panels |-> 2, models |-> Models97]
    ELSE [assigned |-> TRUE, panels |-> 3, models |-> Models94]

\* the two if statements of plot_choices_kw: the number of panels and the
\* models, or nothing assigned
KwSetup(example) ==
    IF example = "1994" THEN [assigned |-> TRUE, panels |-> 3, models |-> Models94]
    ELSE IF example = "1997" THEN [assigned |-> TRUE, panels |-> 2, models |-> Models97]
    ELSE [assigned |-> FALSE, panels |-> 0, models |-> <<>>]

\* the legend of iteration i of plot_choices_kw: the labelled artists of the
\* current axes, one per label, in as many columns as the table just loaded
KwLegend(st, panels) ==
    IF st.err # "" THEN st
    ELSE LET handles == get_legend_handles_labels(st.tr, gca(st))
             move_left == IF panels % 2 = 1 THEN "-0.7" ELSE "-0.2"
         IN plt_legend_with(st, by_label(handles),
                            LegendKw("lower center", <<move_left, "-0.25">>,
                                     Len(st.tbl.columns)))

RECURSIVE KwLoop(_, _, _, _)
KwLoop(st, models, panels, i) ==
    IF i >= Len(models) THEN st
    ELSE LET model == models[i + 1]
             s1 == read_pickle(st, model)
             s2 == area_plot(s1, i, <<"Example model: ", model>>)
             s3 == line_plot(s2, i)
             s4 == decorate(s3, "margins", i, 0)
             s5 == decorate(s4, "spines.right.set_visible", i, FALSE)
             s6 == decorate(s5, "spines.top.set_visible", i, FALSE)
         IN KwLoop(KwLegend(s6, panels), models, panels, i + 1)

plot_choices_kw(st, example) ==
    LET k == KwSetup(example)
    IN IF ~k.assigned
       THEN [st EXCEPT !.err = "UnboundLocalError"]    \* models is read unassigned
       ELSE show(KwLoop(subplots(st, k.panels), k.models, k.panels, 0))

Colors == <<"tab:blue", "tab:orange", "tab:green", "tab:red", "tab:purple">>

\* the first loop of plot_kw_97_comparison, from the i-th model (0-based) on
RECURSIVE CmpLoad(_, _)
CmpLoad(st, i) ==
    IF i >= Len(ModelsCmp) THEN st
    ELSE LET s1 == read_pickle(st, ModelsCmp[i + 1])
             s2 == IF s1.err # "" THEN s1
                   ELSE [s1 EXCEPT !.data = (ModelsCmp[i + 1] :> s1.tbl) @@ @]
         IN CmpLoad(s2, i + 1)

Min(a, b) == IF a <= b THEN a ELSE b

\* the simulated curves drawn before the observed one
CmpCurvesObservedLast(st, i, choice, color) ==
    ax_plot(ax_plot(ax_plot(st, i, "kw_97_basic", choice, color, "kw_97_basic"),
                    i, "kw_97_extended", choice, color, "kw_97_extended"),
            i, "kw_97_obs", choice, "k", "Observed")

\* the three curves of panel i, in the order the code draws them
CmpCurves(st, i, choice, color) ==
    ax_plot(ax_plot(ax_plot(st, i, "kw_97_obs", choice, "k", "Observed"),
                    i, "kw_97_basic", choice, color, "kw_97_basic"),
            i, "kw_97_extended", choice, color, "kw_97_extended")

\* the second loop: enumerate(zip(df.columns, colors)), df the table loaded last
RECURSIVE CmpDraw(_, _)
CmpDraw(st, i) ==
    IF st.err # "" \/ i >= Min(Len(st.tbl.columns), Len(Colors)) THEN st
    ELSE LET choice == st.tbl.columns[i + 1]
             s1 == CmpCurves(st, i, choice, Colors[i + 1])
             s2 == decorate(s1, "set_title", i, PanelTitle(choice))
             s3 == decorate(s2, "set_xlabel", i, "Period")
         IN CmpDraw(s3, i + 1)

\* the figure shown before its legend is placed and its spare panel removed
plot_kw_97_comparison_show_early(st) ==
    LET s1 == CmpLoad(st, 0)
        s2 == subplots(s1, 6)
        s3 == show(CmpDraw(s2, 0))
        s4 == ax_legend(s3, 4, LegendKw("lower center", <<"-0.3", "-0.3">>, 5))
    IN delaxes(s4, 5)

plot_kw_97_comparison(st) ==
    LET s1 == CmpLoad(st, 0)
        s2 == subplots(s1, 6)
        s3 == CmpDraw(s2, 0)
        s4 == ax_legend(s3, 4, LegendKw("lower center", <<"-0.3", "-0.3">>, 5))
        s5 == delaxes(s4, 5)
    IN show(s5)

----------------------------------------------------------------------------
(* The caller's side *)

Examples == {"1994", "1997", "2000"}

\* the frames a caller may pass: any of the sample rows, with all four
\* columns or with one of them missing
DataFrames ==
    { [columns |-> c, rows |-> r] :
        c \in {AllColumns} \cup {AllColumns \ {x} : x \in AllColumns},
        r \in SUBSET SampleRows }

FullFrame == [columns |-> AllColumns, rows |-> SampleRows]

\* a data directory: for each model, no file (width -1) or a table
Directory(width) ==
    LET present == {m \in AllModels : width[m] >= 0}
    IN [p \in {PicklePath(m) : m \in present} |->
          MakeTable(p[2], width[p[2]])]

Widths94 == {-1, 0, 1, 2}

\* the 1994 files vary (missing, empty, narrow), the 1997 files are complete
FileSystems94 ==
    { Directory([m \in AllModels |-> IF m \in Range(Models94) THEN w[m] ELSE 5])
        : w \in [Range(Models94) -> Widths94] }

\* the 1997 files vary: kw_97_extended of any width up to MaxCols or missing,
\* the other two with its columns, without its last column, or missing
FileSystems97 ==
    { Directory([m \in AllModels |->
                    IF m \in Range(Models94) THEN 2
                    ELSE IF m = "kw_97_extended" THEN e
                    ELSE IF m = "kw_97_obs" THEN (IF o = 2 THEN -1 ELSE IF e - o < 0 THEN 0 ELSE e - o)
                    ELSE (IF b = 2 THEN -1 ELSE IF e - b < 0 THEN 0 ELSE e - b)])
        : e \in -1..MaxCols, o \in 0..2, b \in 0..2 }

FullDirectory == Directory([m \in AllModels |-> IF m \in Range(Models94) THEN 2 ELSE 5])

Init ==
    /\ backend \in {"retain", "destroy"}
    /\ handleOrder \in {"by_type", "by_draw"}
    /\ \/ df \in DataFrames /\ fs = FullDirectory
       \/ df = FullFrame /\ fs \in FileSystems94 \cup FileSystems97
    /\ figs = <<>>
    /\ last = [fn |-> "", arg |-> <<>>, pre |-> <<>>, tr |-> <<>>, err |-> ""]

\* a call returns or raises: what it leaves behind
Finish(fn, arg, st) ==
    /\ figs' = st.figs
    /\ df' = st.arg
    /\ fs' = st.fs
    /\ last' = [fn |-> fn, arg |-> arg, pre |-> figs, tr |-> st.tr, err |-> st.err]
    /\ UNCHANGED <<backend, handleOrder>>

CanCall == Len(figs) < MaxFigs

CallFishingGrounds ==
    /\ CanCall
    /\ Finish("plot_fishing_grounds", <<>>, plot_fishing_grounds(Start(df, fs, figs)))

CallChoiceShares ==
    /\ CanCall
    /\ \E friday \in BOOLEAN :
          Finish("plot_choice_shares", friday, plot_choice_shares(Start(df, fs, figs), friday))

CallChoiceProbAndExpLevel ==
    /\ CanCall
    /\ Finish("plot_choice_prob_and_exp_level", <<>>,
              plot_choice_prob_and_exp_level(Start(df, fs, figs)))

CallChoiceProb ==
    /\ CanCall
    /\ Finish("plot_choice_prob", <<>>, plot_choice_prob(Start(df, fs, figs)))

CallChoicesKw ==
    /\ CanCall
    /\ \E example \in Examples :
          Finish("plot_choices_kw", example, plot_choices_kw(Start(df, fs, figs), example))

CallKw97Comparison ==
    /\ CanCall
    /\ Finish("plot_kw_97_comparison", <<>>, plot_kw_97_comparison(Start(df, fs, figs)))

Next ==
    \/ CallFishingGrounds
    \/ CallChoiceShares
    \/ CallChoiceProbAndExpLevel
    \/ CallChoiceProb
    \/ CallChoicesKw
    \/ CallKw97Comparison

Spec == Init /\ [][Next]_vars

----------------------------------------------------------------------------
(* Properties.  They speak about the last call: its library calls last.tr, *)
(* its error last.err, and the registry before (last.pre) and after (figs) *)

Returned == last.fn # "" /\ last.err = ""
Failed == last.fn # "" /\ last.err # ""

\* the positions of the library calls of the last call whose op is in ops
At(ops) == {k \in 1..Len(last.tr) : last.tr[k].op \in ops}

\* the library calls of the last call whose op is in ops, in order
Calls(ops) == LET In(ev) == ev.op \in ops IN SelectSeq(last.tr, In)

PlotOps == {"plot.area", "plot.line", "plot.bar", "plot"}
RenderOps == PlotOps \cup {"legend", "set_title", "set_xlabel", "suptitle", "xticks",
                           "margins", "spines.right.set_visible",
                           "spines.top.set_visible", "xaxis.label.set_visible",
                           "delaxes"}

\* C1: after every call that returns, pyplot's registry (the open figures,
\* the current figure and each figure's current axes) is what it was before
\* the call.
NoStateAcrossInvocations == Returned => figs = last.pre

\* C2: a library call that raises is the last thing its function does, and
\* the function ends with that very error: no load, legend, show or close
\* follows, and a call that failed has displayed nothing.
NoErrorCaught ==
    /\ \A k \in 1..Len(last.tr) :
          last.tr[k].raised # "" => k = Len(last.tr) /\ last.err = last.tr[k].raised
    /\ Failed => At({"show", "close"}) = {}
    /\ Failed /\ last.tr # <<>> => last.tr[Len(last.tr)].raised = last.err

\* a load failed after a panel and a legend had been drawn
LoadFailedMidway ==
    /\ last.err = "FileNotFoundError"
    /\ last.tr[Len(last.tr)].op = "read_pickle"
    /\ At({"legend"}) # {}

\* the positions of the plot calls of the last call on panel i
PlotsOn(i) == {k \in At(PlotOps) : last.tr[k].ax = i}

\* C3: a call of plot_choices_kw that returns made 3 panels for "1994" and
\* 2 for "1997", as many as models; panel i holds the area plot and the
\* line plot of model i of the list and nothing of another model, and its
\* title is "Example model: <model>".
KwPanelPerModel ==
    Returned /\ last.fn = "plot_choices_kw" =>
        LET models == IF last.arg = "1994"
                      THEN <<"kw_94_one", "kw_94_two", "kw_94_three">>
                      ELSE <<"kw_97_basic", "kw_97_extended">>
            made == Calls({"subplots"})
        IN /\ last.arg \in {"1994", "1997"}
           /\ Len(made) = 1
           /\ made[1].a.n = Len(models)
           /\ made[1].a.n = IF last.arg = "1994" THEN 3 ELSE 2
           /\ \A k \in At(PlotOps) : last.tr[k].ax \in 0..(Len(models) - 1)
           /\ \A i \in 0..(Len(models) - 1) :
                 /\ Cardinality({k \in PlotsOn(i) : last.tr[k].op = "plot.area"}) = 1
                 /\ Cardinality({k \in PlotsOn(i) : last.tr[k].op = "plot.line"}) = 1
                 /\ \A k \in PlotsOn(i) :
                       /\ last.tr[k].a.table = models[i + 1]
                       /\ \A h \in Range(last.tr[k].a.artists) : h.data[1] = models[i + 1]
                       /\ last.tr[k].op = "plot.area" =>
                             last.tr[k].a.title = <<"Example model: ", models[i + 1]>>

\* both examples have been drawn
KwDrawn1997 ==
    Returned /\ last.fn = "plot_choices_kw" /\ last.arg = "1997" /\ Cardinality(At(PlotOps)) = 4

\* the paths the last call read, in order
PathsRead == [k \in 1..Len(Calls({"read_pickle"})) |-> Calls({"read_pickle"})[k].a]

FilesOf(models) == [k \in 1..Len(models) |-> <<"data/choices_", models[k], ".pkl">>]

\* C4: only plot_choices_kw and plot_kw_97_comparison read files; every path
\* read is data/choices_<model>.pkl for a model of the fixed lists; a call
\* that returns has read each model's file of its list once, in list order.
ReadsOnlyModelFiles ==
    /\ \A k \in 1..Len(PathsRead) :
          \E m \in {"kw_94_one", "kw_94_two", "kw_94_three",
                    "kw_97_obs", "kw_97_basic", "kw_97_extended"} :
             PathsRead[k] = <<"data/choices_", m, ".pkl">>
    /\ last.fn \notin {"plot_choices_kw", "plot_kw_97_comparison"} => PathsRead = <<>>
    /\ Returned /\ last.fn = "plot_kw_97_comparison" =>
          PathsRead = FilesOf(<<"kw_97_obs", "kw_97_basic", "kw_97_extended">>)
    /\ Returned /\ last.fn = "plot_choices_kw" /\ last.arg = "1994" =>
          PathsRead = FilesOf(<<"kw_94_one", "kw_94_two", "kw_94_three">>)
    /\ Returned /\ last.fn = "plot_choices_kw" /\ last.arg = "1997" =>
          PathsRead = FilesOf(<<"kw_97_basic", "kw_97_extended">>)

\* the comparison has read its three files and returned
ComparisonRead == Returned /\ last.fn = "plot_kw_97_comparison" /\ Len(PathsRead) = 3

LoadThenRenderThenShow ==
    Returned =>
        /\ \A r \in At({"read_pickle"}) : \A d \in At(RenderOps) : r < d
        /\ Cardinality(At({"show"})) = 1
        /\ \A d \in At(PlotOps \cup {"legend"}) : \A w \in At({"show"}) : d < w

\* C5 amended: in a call that returns, plt.show is called exactly once,
\* after every load and every rendering call; outside plot_choices_kw no
\* table is loaded after a rendering call; plot_choices_kw loads the table
\* of model i right before it draws panel i, after the plots of the panels
\* before it.
ShowOnceAfterDrawing ==
    Returned =>
        /\ Cardinality(At({"show"})) = 1
        /\ \A d \in At(RenderOps \cup {"read_pickle"}) : \A w \in At({"show"}) : d < w
        /\ last.fn # "plot_choices_kw" =>
              \A r \in At({"read_pickle"}) : \A d \in At(RenderOps) : r < d
        /\ last.fn = "plot_choices_kw" =>
              \A r \in At({"read_pickle"}) :
                 /\ last.tr[r + 1].op = "plot.area"
                 /\ last.tr[r + 1].a.table = last.tr[r].a[2]
                 /\ \A d \in At(PlotOps) :
                       IF d < r THEN last.tr[d].ax < last.tr[r + 1].ax
                       ELSE last.tr[d].ax >= last.tr[r + 1].ax

\* plot_choices_kw returned, having loaded a table after drawing a panel
KwLoadedBetweenPanels ==
    /\ Returned /\ last.fn = "plot_choices_kw"
    /\ \E r \in At({"read_pickle"}) : \E d \in At(PlotOps) : d < r

\* C6: no call, returning or failing, changes the dataframe it was passed
\* or the files of the data directory.
InputsReadOnly == [][df' = df /\ fs' = fs]_vars

\* plot_fishing_grounds has queried a frame with rows of both grounds
FishingGroundsDrawn ==
    /\ Returned /\ last.fn = "plot_fishing_grounds"
    /\ \E r \in df.rows : r.Fishing_Grounds = "rich"
    /\ \E r \in df.rows : r.Fishing_Grounds = "poor"

\* a call's library calls with what the flag friday decides blanked: the
\* colours given to the bar plot, the colours of the bars, and the legend's
\* column count
Uncoloured(h) == [h EXCEPT !.color = ""]
FlagBlind(tr) ==
    [k \in 1..Len(tr) |->
        IF tr[k].op = "plot.bar"
        THEN [tr[k] EXCEPT !.a.kw.color = <<>>,
                           !.a.artists = [j \in 1..Len(@) |-> Uncoloured(@[j])]]
        ELSE IF tr[k].op = "legend"
        THEN [tr[k] EXCEPT !.a.kw.ncol = 0,
                           !.a.entries = [j \in 1..Len(@) |-> Uncoloured(@[j])]]
        ELSE tr[k]]

\* C7: plot_choice_shares passes the colours C0, C2, C1 and 3 legend columns
\* with friday, C0, C1 and 2 columns without; as many colours as columns;
\* the same call with the flag flipped differs in nothing else.
FridayPaletteAndColumns ==
    last.fn = "plot_choice_shares" =>
        LET flipped == plot_choice_shares(Start(df, fs, last.pre), ~last.arg)
        IN /\ \A b \in At({"plot.bar"}) :
                 last.tr[b].a.kw.color =
                    IF last.arg THEN <<"C0", "C2", "C1">> ELSE <<"C0", "C1">>
           /\ \A l \in At({"legend"}) :
                 /\ last.tr[l].a.kw.ncol = IF last.arg THEN 3 ELSE 2
                 /\ \A b \in At({"plot.bar"}) :
                       Len(last.tr[b].a.kw.color) = last.tr[l].a.kw.ncol
           /\ Returned => Cardinality(At({"plot.bar"})) = 1 /\ Cardinality(At({"legend"})) = 1
           /\ flipped.err = last.err
           /\ FlagBlind(flipped.tr) = FlagBlind(last.tr)

\* plot_choice_shares was called with friday on a frame with three choices
FridayDrawn ==
    /\ Returned /\ last.fn = "plot_choice_shares" /\ last.arg = TRUE
    /\ \E b \in At({"plot.bar"}) : Len(last.tr[b].a.artists) = 3

\* the columns of the table in a model's file
ColumnsOf(model) == fs[<<"data/choices_", model, ".pkl">>].columns

\* the labelled artists the last call put on panel i
Drawn(i) == ArtistsOn(last.tr, i)

KwModels == IF last.arg = "1994" THEN <<"kw_94_one", "kw_94_two", "kw_94_three">>
            ELSE <<"kw_97_basic", "kw_97_extended">>

\* every column of model i's table labels two artists of panel i: an area
\* and a line
DrawnTwice(i) ==
    \A c \in Range(ColumnsOf(KwModels[i + 1])) :
       /\ Cardinality({k \in 1..Len(Drawn(i)) : Drawn(i)[k].label = c}) = 2
       /\ \E k \in 1..Len(Drawn(i)) : Drawn(i)[k].label = c /\ Drawn(i)[k].kind = "poly"
       /\ \E k \in 1..Len(Drawn(i)) : Drawn(i)[k].label = c /\ Drawn(i)[k].kind = "line"

\* C8 as stated: in plot_choices_kw every column is drawn twice on its
\* panel, and the legend of iteration i is built from panel i and lists
\* each column of model i's table once.
LegendFromOwnPanel ==
    Returned /\ last.fn = "plot_choices_kw" =>
        LET legends == Calls({"legend"})
        IN /\ Len(legends) = Len(KwModels)
           /\ \A i \in 0..(Len(KwModels) - 1) :
                 /\ DrawnTwice(i)
                 /\ legends[i + 1].ax = i
                 /\ Len(legends[i + 1].a.entries) = Len(ColumnsOf(KwModels[i + 1]))
                 /\ {h.label : h \in Range(legends[i + 1].a.entries)}
                       = Range(ColumnsOf(KwModels[i + 1]))

\* C8 amended: every column is drawn twice on its panel; every iteration's
\* legend is placed on the current axes, which is the last panel, in as many
\* columns as model i's table has; before the last iteration that panel is
\* empty and so is the legend; the last iteration's legend, the one the
\* figure keeps, lists each column of the last model's table once, in
\* column order, with an artist of the last panel as its handle.
LegendOnLastPanel ==
    Returned /\ last.fn = "plot_choices_kw" =>
        LET legends == Calls({"legend"})
            n == Len(KwModels)
        IN /\ Len(legends) = n
           /\ \A i \in 0..(n - 1) :
                 LET entries == legends[i + 1].a.entries
                     columns == ColumnsOf(KwModels[i + 1])
                 IN /\ DrawnTwice(i)
                    /\ legends[i + 1].ax = n - 1
                    /\ legends[i + 1].a.kw.ncol = Len(columns)
                    /\ i < n - 1 => entries = <<>>
                    /\ i = n - 1 =>
                          /\ Len(entries) = Len(columns)
                          /\ \A k \in 1..Len(entries) :
                                /\ entries[k].label = columns[k]
                                /\ entries[k] \in Range(Drawn(n - 1))

\* plot_choices_kw returned with an empty legend placed in an iteration
\* whose table has columns
KwEmptyLegendPlaced ==
    /\ Returned /\ last.fn = "plot_choices_kw"
    /\ \E l \in At({"legend"}) :
          last.tr[l].a.entries = <<>> /\ last.tr[l].a.kw.ncol > 0

\* the three curves of a panel of the comparison for a column, in order
CurvesFor(c, color) ==
    << [kind |-> "line", label |-> "Observed", color |-> "k",
        data |-> <<"kw_97_obs", c>>],
       [kind |-> "line", label |-> "kw_97_basic", color |-> color,
        data |-> <<"kw_97_basic", c>>],
       [kind |-> "line", label |-> "kw_97_extended", color |-> color,
        data |-> <<"kw_97_extended", c>>] >>

FiveColors == <<"tab:blue", "tab:orange", "tab:green", "tab:red", "tab:purple">>

Titles(i) == {last.tr[k].a : k \in {j \in At({"set_title"}) : last.tr[j].ax = i}}

\* C9 as stated: every column of kw_97_extended's table has exactly one
\* panel of the comparison, titled after it, with the three curves Observed,
\* kw_97_basic, kw_97_extended of that column; the panels' colours differ;
\* panel 4, which carries the legend, has been drawn on; exactly the sixth
\* panel has been removed.
OnePanelPerColumn ==
    Returned /\ last.fn = "plot_kw_97_comparison" =>
        LET columns == ColumnsOf("kw_97_extended")
        IN /\ \A k \in 1..Len(columns) :
                 Cardinality({i \in 0..5 :
                     /\ \E color \in Range(FiveColors) :
                           Drawn(i) = CurvesFor(columns[k], color)
                     /\ Titles(i) = {PanelTitle(columns[k])}}) = 1
           /\ \A i, j \in 0..5 :
                 i # j /\ Drawn(i) # <<>> /\ Drawn(j) # <<>> =>
                    Drawn(i)[2].color # Drawn(j)[2].color
           /\ Calls({"legend"})[1].ax = 4 /\ Drawn(4) # <<>>
           /\ {last.tr[k].ax : k \in At({"delaxes"})} = {5} /\ Drawn(5) = <<>>

\* C9 amended: the comparison draws the first min(n, 5) of the n columns
\* of kw_97_extended's table, column i on panel i in colour i, titled after
\* it, with the three curves Observed, kw_97_basic, kw_97_extended of that
\* column; a column past the fifth has no panel and the panels past the
\* columns stay empty; the one legend is on panel 4 and lists the three
\* curves if there are five columns or more and nothing otherwise; exactly
\* the sixth panel is removed, and nothing was drawn on it.
PanelsForFirstFiveColumns ==
    Returned /\ last.fn = "plot_kw_97_comparison" =>
        LET columns == ColumnsOf("kw_97_extended")
            n == IF Len(columns) < 5 THEN Len(columns) ELSE 5
        IN /\ \A i \in 0..5 :
                 IF i < n
                 THEN /\ Drawn(i) = CurvesFor(columns[i + 1], FiveColors[i + 1])
                      /\ Titles(i) = {PanelTitle(columns[i + 1])}
                 ELSE Drawn(i) = <<>> /\ Titles(i) = {}
           /\ Len(Calls({"legend"})) = 1
           /\ Calls({"legend"})[1].ax = 4
           /\ Calls({"legend"})[1].a.entries
                 = IF Len(columns) >= 5 THEN CurvesFor(columns[5], FiveColors[5]) ELSE <<>>
           /\ {last.tr[k].ax : k \in At({"delaxes"})} = {5}
           /\ Cardinality(At({"delaxes"})) = 1

\* the comparison returned for tables of six columns
ComparisonOfSixColumns ==
    /\ Returned /\ last.fn = "plot_kw_97_comparison"
    /\ Len(ColumnsOf("kw_97_extended")) = 6

====
